---- MODULE Spec2Model ----
(***************************************************************************)
(* Model of the film-recommendation bot of src/main.py: the handlers       *)
(* start, select_genres, select_years, handle_keywords, cancel, unknown,   *)
(* back_to_genres and back_to_years, the two persistence functions, and    *)
(* the routing that main() registers on the Application.                   *)
(*                                                                         *)
(* A Python string is a sequence of chunks (each chunk a TLA+ string):     *)
(* "genre_Komediya" is <<"genre_", "Komediya">>, the empty string is <<>>. *)
(* startswith, replace, join and the regular-expression match of the       *)
(* callback patterns are computed on these sequences.  The Cyrillic labels *)
(* of the catalog are transliterated.                                      *)
(***************************************************************************)
EXTENDS Integers, Sequences, FiniteSets, TLC

VARIABLES conversations, user_data, users2, films, turn, update_queue, tasks

vars == <<conversations, user_data, users2, films, turn, update_queue, tasks>>

-----------------------------------------------------------------------------
(* Conversation states (main.py line 19) and ConversationHandler.END.      *)

SELECT_GENRES == 0
SELECT_YEARS == 1
ENTER_KEYWORDS == 2
END == -1

(* Upper limit of selected genres, the literal of line 212.                *)
MaxGenres == 3

-----------------------------------------------------------------------------
(* Bounds of the model.                                                    *)

\* users whose updates are interleaved
NumUsers == 1
\* rows the films table holds before a callback is called
MaxFilms == 1

Users == 1..NumUsers

-----------------------------------------------------------------------------
(* Python values.                                                          *)

\* None, and a str value stored next to it under the same dictionary key
None == [none |-> TRUE]
Str(s) == [none |-> FALSE, str |-> s]

Range(seq) == {seq[i] : i \in 1..Len(seq)}

\* dict.get(key, default)
Get(d, key, default) == IF key \in DOMAIN d THEN d[key] ELSE default

\* d[key] = value
SetItem(d, key, value) ==
    [k \in (DOMAIN d) \cup {key} |-> IF k = key THEN value ELSE d[k]]

\* del d[key] / d.pop(key, None)
DelItem(d, key) == [k \in (DOMAIN d) \ {key} |-> d[k]]

\* {} : the dictionary after clear()
EmptyDict == [k \in {} |-> 0]

\* list.remove(x): removes the first occurrence of x
RECURSIVE ListRemove(_, _)
ListRemove(list, x) ==
    IF list = <<>> THEN <<>>
    ELSE IF Head(list) = x THEN Tail(list)
    ELSE <<Head(list)>> \o ListRemove(Tail(list), x)

\* str.startswith(prefix), prefix a single chunk
StartsWith(s, prefix) == Len(s) >= 1 /\ s[1] = prefix

\* str.replace(old, ""), old a single chunk
ReplaceWithEmpty(s, old) == SelectSeq(s, LAMBDA c : c # old)

\* sep.join(list) with sep = ", "
RECURSIVE Join(_)
Join(list) ==
    IF list = <<>> THEN <<>>
    ELSE IF Len(list) = 1 THEN list[1]
    ELSE list[1] \o <<", ">> \o Join(Tail(list))

\* re.match(r"^(a1|a2|...)$", s): "$" also matches before one trailing newline
PatternMatches(alternatives, s) ==
    \E a \in alternatives : s = a \/ s = a \o <<"\n">>

-----------------------------------------------------------------------------
(* Option catalog (lines 42-61), restricted to the labels the model uses.  *)

FILM_GENRES ==
    [k \in {<<"Boevik">>, <<"Komediya">>, <<"Drama">>, <<"Triller">>} |->
        CASE k = <<"Boevik">> -> <<"action">>
          [] k = <<"Komediya">> -> <<"comedy">>
          [] k = <<"Drama">> -> <<"drama">>
          [] k = <<"Triller">> -> <<"thriller">>]

FILM_YEAR_RANGES ==
    [k \in {<<"00-e (2000-2009)">>, <<"10-e (2010-2020)">>} |->
        CASE k = <<"00-e (2000-2009)">> -> <<"2000-2009">>
          [] k = <<"10-e (2010-2020)">> -> <<"2010-2020">>]

-----------------------------------------------------------------------------
(* Texts of the replies (the model keeps one name per message).            *)

MSG_GREETING == <<"greeting: choose 1 to 3 genres">>
MSG_GENRE_MENU == <<"genre menu">>
MSG_YEAR_MENU == <<"year menu">>
MSG_ENTER_KEYWORDS == <<"enter keywords">>
MSG_ALERT_MAX_GENRES == <<"alert: at most 3 genres">>
MSG_ALERT_NO_GENRE == <<"alert: choose at least one genre">>
MSG_ALERT_NO_YEARS == <<"alert: choose at least one year range">>
MSG_WENT_WRONG == <<"something went wrong, start again with /start">>
MSG_SEARCHING == <<"searching">>
MSG_MODEL_ERROR == <<"error while getting films, try again later">>
MSG_START_OVER == <<"hope something fits">>
MSG_CANCELLED == <<"search cancelled">>
MSG_UNKNOWN == <<"did not understand this command, try /start">>

\* one step of a handler that the outside can observe
Step(step, arg) == [step |-> step, arg |-> arg]

\* what a handler leaves behind: the user's dictionary, the returned state (<<>> when
\* the handler returns None or raises), whether it raised, its observable steps, and
\* the two tables
Result(ud, ret, raised, out, u2, fl) ==
    [ud |-> ud, ret |-> ret, raised |-> raised, out |-> out, users2 |-> u2, films |-> fl]

-----------------------------------------------------------------------------
(* Persistence (lines 65-172).  db is the outcome of this call's connection: *)
(* "ok", "unreachable" (get_db_connection returns None) or "error" (a       *)
(* statement raises inside the try block, nothing is committed).           *)

DbOutcomes == {"ok", "unreachable", "error"}

get_db_connection(db) == db # "unreachable"

\* save_user_data as an upsert that rewrites the row of an existing id
save_user_data_Overwrites(user_id, profile, db, u2) ==
    IF get_db_connection(db) /\ db = "ok" THEN SetItem(u2, user_id, profile) ELSE u2

\* lines 119-143: the row is inserted only when the id is absent
save_user_data(user_id, profile, db, u2) ==
    IF get_db_connection(db) /\ db = "ok" /\ user_id \notin DOMAIN u2
    THEN SetItem(u2, user_id, profile)
    ELSE u2

\* the row of lines 156-165; country, city and phone number are empty strings
FilmRow(user_id, profile, genres, years, keywords, gemini_response) ==
    [user_id |-> user_id, telegram_username |-> profile.username,
     user_first_name |-> profile.first_name, user_last_name |-> profile.last_name,
     user_country |-> <<>>, user_city |-> <<>>, user_phone_number |-> <<>>,
     genres |-> genres, years |-> years, keywords |-> keywords,
     gemini_response |-> gemini_response]

\* lines 145-172 with the foreign key of line 108: the insert raises when
\* users2 has no row for user_id; every exception is caught and logged
FilmStored(user_id, db, u2) ==
    get_db_connection(db) /\ db = "ok" /\ user_id \in DOMAIN u2

\* how the call ends: "committed", "unreachable", or "error" (caught at line 168)
FilmOutcome(user_id, db, u2) ==
    IF FilmStored(user_id, db, u2) THEN "committed"
    ELSE IF get_db_connection(db) THEN "error" ELSE "unreachable"

save_film_request(user_id, profile, genres, years, keywords, gemini_response, db, u2, fl) ==
    IF FilmStored(user_id, db, u2)
    THEN Append(fl, FilmRow(user_id, profile, genres, years, keywords, gemini_response))
    ELSE fl

-----------------------------------------------------------------------------
(* Handlers.  update is [user, message, text, data, profile]: message is   *)
(* TRUE for a message update (update.message is set) and FALSE for a       *)
(* callback query (update.message is None, update.callback_query.data is   *)
(* data).  env holds the outcomes of the collaborators during the turn.    *)

\* start without the clear of line 181: the two lists are reset in place
start_NoClear(update, ud, env, u2, fl) ==
    LET saved == save_user_data(update.user, update.profile, env.db, u2)
        cleared == SetItem(SetItem(ud, "selected_genres", <<>>),
                           "selected_years", <<>>)
        s1 == Step("save_user_data", <<env.db>>)
    IN  IF update.message
        THEN Result(cleared, <<SELECT_GENRES>>, FALSE,
                    <<s1, Step("reply", MSG_GREETING)>>, saved, fl)
        ELSE Result(cleared, <<>>, TRUE, <<s1>>, saved, fl)

\* lines 176-197
start(update, ud, env, u2, fl) ==
    LET saved == save_user_data(update.user, update.profile, env.db, u2)
        cleared == SetItem(SetItem(EmptyDict, "selected_genres", <<>>),
                           "selected_years", <<>>)
        s1 == Step("save_user_data", <<env.db>>)
    IN  IF update.message
        THEN Result(cleared, <<SELECT_GENRES>>, FALSE,
                    <<s1, Step("reply", MSG_GREETING)>>, saved, fl)
        \* update.message is None: reply_html raises AttributeError at line 192
        ELSE Result(cleared, <<>>, TRUE, <<s1>>, saved, fl)

\* the toggle without the limit of line 212
ToggleGenre_NoLimit(selected_genres, genre) ==
    IF genre \in Range(selected_genres) THEN ListRemove(selected_genres, genre)
    ELSE Append(selected_genres, genre)

\* lines 204-219: the toggle of one genre
ToggleGenre(selected_genres, genre) ==
    IF genre \in Range(selected_genres) THEN ListRemove(selected_genres, genre)
    ELSE IF Len(selected_genres) < MaxGenres THEN Append(selected_genres, genre)
    ELSE selected_genres

\* lines 199-281
select_genres(update, ud, env, u2, fl) ==
    LET data == update.data
        selected_genres == Get(ud, "selected_genres", <<>>)
    IN  IF StartsWith(data, "genre_")
        THEN LET genre == ReplaceWithEmpty(data, "genre_")
                 toggled == ToggleGenre(selected_genres, genre)
                 alert == IF genre \notin Range(selected_genres)
                             /\ ~(Len(selected_genres) < MaxGenres)
                          THEN <<Step("alert", MSG_ALERT_MAX_GENRES)>> ELSE <<>>
             IN  Result(SetItem(ud, "selected_genres", toggled), <<SELECT_GENRES>>, FALSE,
                        <<Step("answer", <<>>)>> \o alert
                            \o <<Step("menu", MSG_GENRE_MENU)>>, u2, fl)
        ELSE IF data = <<"confirm_genres">>
        THEN IF selected_genres = <<>>
             THEN Result(ud, <<SELECT_GENRES>>, FALSE,
                         <<Step("answer", <<>>), Step("alert", MSG_ALERT_NO_GENRE)>>, u2, fl)
             ELSE Result(SetItem(ud, "selected_genres", selected_genres),
                         <<SELECT_YEARS>>, FALSE,
                         <<Step("answer", <<>>), Step("menu", MSG_YEAR_MENU)>>, u2, fl)
        ELSE Result(ud, <<SELECT_GENRES>>, FALSE, <<Step("answer", <<>>)>>, u2, fl)

\* lines 289-300: the toggle of one year range
ToggleYear(selected_years, year_range_name) ==
    IF year_range_name \in Range(selected_years)
    THEN ListRemove(selected_years, year_range_name)
    ELSE Append(selected_years, year_range_name)

\* lines 284-354
select_years(update, ud, env, u2, fl) ==
    LET data == update.data
        selected_years == Get(ud, "selected_years", <<>>)
    IN  IF StartsWith(data, "year_")
        THEN LET year_range_name == ReplaceWithEmpty(data, "year_")
             IN  Result(SetItem(ud, "selected_years",
                                ToggleYear(selected_years, year_range_name)),
                        <<SELECT_YEARS>>, FALSE,
                        <<Step("answer", <<>>), Step("menu", MSG_YEAR_MENU)>>, u2, fl)
        ELSE IF data = <<"confirm_years">>
        THEN IF selected_years = <<>>
             THEN Result(ud, <<SELECT_YEARS>>, FALSE,
                         <<Step("answer", <<>>), Step("alert", MSG_ALERT_NO_YEARS)>>, u2, fl)
             ELSE Result(SetItem(ud, "selected_years", selected_years),
                         <<ENTER_KEYWORDS>>, FALSE,
                         <<Step("answer", <<>>), Step("menu", MSG_ENTER_KEYWORDS)>>, u2, fl)
        ELSE Result(ud, <<SELECT_YEARS>>, FALSE, <<Step("answer", <<>>)>>, u2, fl)

\* lines 377-383: the prompt built from the two rendered selections and the keywords
PromptText(genres_str, years_str, keywords) ==
    <<"top-3 films in genres: ">> \o genres_str \o <<", released in years: ">>
        \o years_str \o <<". keywords: '">> \o keywords \o <<"'.">>

\* line 375: [FILM_YEAR_RANGES[yr] for yr in selected_years] raises KeyError for a
\* label that is no key of the catalog
YearsResolve(selected_years) ==
    \A i \in 1..Len(selected_years) : selected_years[i] \in DOMAIN FILM_YEAR_RANGES

YearValues(selected_years) ==
    [i \in 1..Len(selected_years) |-> FILM_YEAR_RANGES[selected_years[i]]]

\* CompletionSteps with an except branch that only logs: a failed model call
\* is not reported to the user
CompletionSteps_SilentModelError(user_id, env, u2, prompt_text) ==
    IF env.model # "ok"
    THEN <<Step("generate_content", prompt_text)>>
    ELSE IF ~env.send
    THEN <<Step("generate_content", prompt_text), Step("reply_failed", env.text),
           Step("reply", MSG_MODEL_ERROR)>>
    ELSE <<Step("generate_content", prompt_text), Step("reply", env.text),
           Step("save_film_request", <<FilmOutcome(user_id, env.db, u2)>>)>>

\* CompletionSteps with a save_film_request that lets its exception out: the
\* except branch of line 411 then answers with the error reply
CompletionSteps_StorageErrorSurfaces(user_id, env, u2, prompt_text) ==
    IF env.model # "ok"
    THEN <<Step("generate_content", prompt_text), Step("reply", MSG_MODEL_ERROR)>>
    ELSE IF ~env.send
    THEN <<Step("generate_content", prompt_text), Step("reply_failed", env.text),
           Step("reply", MSG_MODEL_ERROR)>>
    ELSE <<Step("generate_content", prompt_text), Step("reply", env.text),
           Step("save_film_request", <<FilmOutcome(user_id, env.db, u2)>>)>>
         \o IF FilmOutcome(user_id, env.db, u2) = "error"
            THEN <<Step("reply", MSG_MODEL_ERROR)>> ELSE <<>>

\* CompletionSteps with the insert moved ahead of the reply: the request is
\* recorded before the user has seen the text, and also when sending it fails
CompletionSteps_SaveBeforeReply(user_id, env, u2, prompt_text) ==
    IF env.model # "ok"
    THEN <<Step("generate_content", prompt_text), Step("reply", MSG_MODEL_ERROR)>>
    ELSE IF ~env.send
    THEN <<Step("generate_content", prompt_text),
           Step("save_film_request", <<FilmOutcome(user_id, env.db, u2)>>),
           Step("reply_failed", env.text), Step("reply", MSG_MODEL_ERROR)>>
    ELSE <<Step("generate_content", prompt_text),
           Step("save_film_request", <<FilmOutcome(user_id, env.db, u2)>>),
           Step("reply", env.text)>>

\* lines 385-415: the model call, the reply with its text, and the insert.
\* env.model is "ok" or "error" (generate_content or response.text raises),
\* env.text the text of the response, env.send whether reply_text delivers it
\* (it raises for a text Telegram refuses); any exception of the try block
\* ends in the error reply of lines 413-415.
CompletionSteps(user_id, env, u2, prompt_text) ==
    IF env.model # "ok"
    THEN <<Step("generate_content", prompt_text), Step("reply", MSG_MODEL_ERROR)>>
    ELSE IF ~env.send
    THEN <<Step("generate_content", prompt_text), Step("reply_failed", env.text),
           Step("reply", MSG_MODEL_ERROR)>>
    ELSE <<Step("generate_content", prompt_text), Step("reply", env.text),
           Step("save_film_request",
                <<FilmOutcome(user_id, env.db, u2)>>)>>

\* line 361: the keywords are stored before anything is checked
StoreKeywords(ud, keywords) == SetItem(ud, "keywords", Str(keywords))

\* handle_keywords without the check of lines 367-369
handle_keywords_NoSelectionCheck(update, ud, env, u2, fl) ==
    LET keywords == update.text
        ud1 == StoreKeywords(ud, keywords)
        selected_genres == Get(ud1, "selected_genres", <<>>)
        selected_years == Get(ud1, "selected_years", <<>>)
    IN  IF ~update.message
        THEN Result(ud, <<>>, TRUE, <<>>, u2, fl)
        ELSE IF ~YearsResolve(selected_years)
        THEN Result(ud1, <<>>, TRUE, <<Step("reply", MSG_SEARCHING)>>, u2, fl)
        ELSE LET genres_str == Join(selected_genres)
                 years_str == Join(YearValues(selected_years))
                 prompt_text == PromptText(genres_str, years_str, keywords)
                 steps == CompletionSteps(update.user, env, u2, prompt_text)
                 saved == IF \E i \in 1..Len(steps) : steps[i].step = "save_film_request"
                          THEN save_film_request(update.user, update.profile, genres_str,
                                                 years_str, keywords, env.text,
                                                 env.db, u2, fl)
                          ELSE fl
             IN  Result(ud1, <<END>>, FALSE,
                        <<Step("reply", MSG_SEARCHING)>> \o steps
                            \o <<Step("reply", MSG_START_OVER)>>,
                        u2, saved)

\* lines 357-422
handle_keywords(update, ud, env, u2, fl) ==
    LET keywords == update.text
        ud1 == StoreKeywords(ud, keywords)
        selected_genres == Get(ud1, "selected_genres", <<>>)
        selected_years == Get(ud1, "selected_years", <<>>)
    IN  IF ~update.message
        \* update.message is None: line 360 raises AttributeError
        THEN Result(ud, <<>>, TRUE, <<>>, u2, fl)
        ELSE IF selected_genres = <<>> \/ selected_years = <<>>
        THEN Result(ud1, <<END>>, FALSE, <<Step("reply", MSG_WENT_WRONG)>>, u2, fl)
        ELSE IF ~YearsResolve(selected_years)
        THEN Result(ud1, <<>>, TRUE, <<Step("reply", MSG_SEARCHING)>>, u2, fl)
        ELSE LET genres_str == Join(selected_genres)
                 years_str == Join(YearValues(selected_years))
                 prompt_text == PromptText(genres_str, years_str, keywords)
                 steps == CompletionSteps(update.user, env, u2, prompt_text)
                 saved == IF \E i \in 1..Len(steps) : steps[i].step = "save_film_request"
                          THEN save_film_request(update.user, update.profile, genres_str,
                                                 years_str, keywords, env.text,
                                                 env.db, u2, fl)
                          ELSE fl
             IN  Result(ud1, <<END>>, FALSE,
                        <<Step("reply", MSG_SEARCHING)>> \o steps
                            \o <<Step("reply", MSG_START_OVER)>>,
                        u2, saved)

\* cancel without the clear() of line 432
cancel_KeepsData(update, ud, env, u2, fl) ==
    IF update.message
    THEN Result(ud, <<END>>, FALSE, <<Step("reply", MSG_CANCELLED)>>, u2, fl)
    ELSE Result(ud, <<>>, TRUE, <<>>, u2, fl)

\* lines 424-433
cancel(update, ud, env, u2, fl) ==
    IF update.message
    THEN Result(EmptyDict, <<END>>, FALSE, <<Step("reply", MSG_CANCELLED)>>, u2, fl)
    ELSE Result(ud, <<>>, TRUE, <<>>, u2, fl)

\* lines 435-437: returns None
unknown(update, ud, env, u2, fl) ==
    IF update.message
    THEN Result(ud, <<>>, FALSE, <<Step("reply", MSG_UNKNOWN)>>, u2, fl)
    ELSE Result(ud, <<>>, TRUE, <<>>, u2, fl)

\* back_to_genres resetting the genre list instead of the year list of line 446
back_to_genres_ResetsGenres(update, ud, env, u2, fl) ==
    Result(SetItem(ud, "selected_genres", <<>>), <<SELECT_GENRES>>, FALSE,
           <<Step("answer", <<>>), Step("menu", MSG_GENRE_MENU)>>, u2, fl)

\* back_to_genres without the reset of line 446
back_to_genres_KeepsYears(update, ud, env, u2, fl) ==
    Result(ud, <<SELECT_GENRES>>, FALSE,
           <<Step("answer", <<>>), Step("menu", MSG_GENRE_MENU)>>, u2, fl)

\* lines 441-470
back_to_genres(update, ud, env, u2, fl) ==
    Result(SetItem(ud, "selected_years", <<>>), <<SELECT_GENRES>>, FALSE,
           <<Step("answer", <<>>), Step("menu", MSG_GENRE_MENU)>>, u2, fl)

\* lines 473-503
back_to_years(update, ud, env, u2, fl) ==
    Result(SetItem(ud, "keywords", None), <<SELECT_YEARS>>, FALSE,
           <<Step("answer", <<>>), Step("menu", MSG_YEAR_MENU)>>, u2, fl)

HandlerNames == {"start", "select_genres", "select_years", "handle_keywords",
                 "cancel", "unknown", "back_to_genres", "back_to_years"}

\* the callback registered under a name
Call(name, update, ud, env, u2, fl) ==
    CASE name = "start" -> start(update, ud, env, u2, fl)
      [] name = "select_genres" -> select_genres(update, ud, env, u2, fl)
      [] name = "select_years" -> select_years(update, ud, env, u2, fl)
      [] name = "handle_keywords" -> handle_keywords(update, ud, env, u2, fl)
      [] name = "cancel" -> cancel(update, ud, env, u2, fl)
      [] name = "unknown" -> unknown(update, ud, env, u2, fl)
      [] name = "back_to_genres" -> back_to_genres(update, ud, env, u2, fl)
      [] name = "back_to_years" -> back_to_years(update, ud, env, u2, fl)

-----------------------------------------------------------------------------
(* Routing (lines 513-534).  A handler is [type, command, pattern, filter, *)
(* callback]; its check_update is CheckUpdate.                             *)

CommandHandler(command, callback) ==
    [type |-> "CommandHandler", command |-> command, pattern |-> {},
     filter |-> "", callback |-> callback]

CallbackQueryHandler(callback, pattern) ==
    [type |-> "CallbackQueryHandler", command |-> "", pattern |-> pattern,
     filter |-> "", callback |-> callback]

MessageHandler(filter, callback) ==
    [type |-> "MessageHandler", command |-> "", pattern |-> {},
     filter |-> filter, callback |-> callback]

\* filters.COMMAND: the text starts with a bot command
IsCommand(update) == update.message /\ StartsWith(update.text, "/")

\* filters.TEXT: the message has text
IsText(update) == update.message /\ update.text # <<>>

Filter(filter, update) ==
    CASE filter = "TEXT & ~COMMAND" -> IsText(update) /\ ~IsCommand(update)
      [] filter = "COMMAND | TEXT" -> IsCommand(update) \/ IsText(update)
      [] filter = "COMMAND" -> IsCommand(update)

\* Handler.check_update: a callback pattern is matched by re.match
CheckUpdate(h, update) ==
    CASE h.type = "CommandHandler" ->
            IsCommand(update) /\ Len(update.text) >= 2 /\ update.text[2] = h.command
      [] h.type = "CallbackQueryHandler" ->
            ~update.message /\ PatternMatches(h.pattern, update.data)
      [] h.type = "MessageHandler" -> Filter(h.filter, update)

\* lines 514-529
entry_points == <<CommandHandler("start", "start")>>

states ==
    [st \in {SELECT_GENRES, SELECT_YEARS, ENTER_KEYWORDS} |->
        CASE st = SELECT_GENRES ->
                <<CallbackQueryHandler("select_genres", {<<"genre_">>, <<"confirm_genres">>}),
                  CallbackQueryHandler("back_to_genres", {<<"back_to_genres">>})>>
          [] st = SELECT_YEARS ->
                <<CallbackQueryHandler("select_years", {<<"year_">>, <<"confirm_years">>}),
                  CallbackQueryHandler("back_to_genres", {<<"back_to_genres">>})>>
          [] st = ENTER_KEYWORDS ->
                <<MessageHandler("TEXT & ~COMMAND", "handle_keywords"),
                  CallbackQueryHandler("back_to_years", {<<"back_to_years">>})>>]

fallbacks == <<CommandHandler("cancel", "cancel"), MessageHandler("COMMAND | TEXT", "unknown")>>

\* lines 533-534: the handlers added to the application after the conversation
application_handlers ==
    <<CallbackQueryHandler("start", {<<"start_over">>}), MessageHandler("COMMAND", "unknown")>>

\* the first handler of a list that accepts the update, 0 when none does
FirstMatch(handlers, update) ==
    LET accepting == {i \in 1..Len(handlers) : CheckUpdate(handlers[i], update)}
    IN  IF accepting = {} THEN 0
        ELSE CHOOSE i \in accepting : \A j \in accepting : i <= j

NoHandler == "none"

\* ConversationHandler.check_update: entry points when the user has no state,
\* otherwise the handlers of the state and then the fallbacks
ConversationCheck(convs, update) ==
    IF update.user \notin DOMAIN convs
    THEN LET i == FirstMatch(entry_points, update)
         IN  IF i = 0 THEN NoHandler ELSE entry_points[i].callback
    ELSE LET hs == states[convs[update.user]]
             i == FirstMatch(hs, update)
             j == FirstMatch(fallbacks, update)
         IN  IF i # 0 THEN hs[i].callback
             ELSE IF j # 0 THEN fallbacks[j].callback
             ELSE NoHandler

\* Application.process_update within the one handler group: the conversation
\* first, then the handlers of lines 533-534.  conv tells whether the callback
\* runs inside the ConversationHandler, which alone uses its return value.
Route(convs, update) ==
    LET c == ConversationCheck(convs, update)
        i == FirstMatch(application_handlers, update)
    IN  IF c # NoHandler THEN [callback |-> c, conv |-> TRUE]
        ELSE IF i # 0 THEN [callback |-> application_handlers[i].callback, conv |-> FALSE]
        ELSE [callback |-> NoHandler, conv |-> FALSE]

\* ConversationHandler._update_state: END removes the key, None keeps the state
UpdateState(convs, key, ret) ==
    IF ret = <<>> THEN convs
    ELSE IF ret[1] = END THEN DelItem(convs, key)
    ELSE SetItem(convs, key, ret[1])

-----------------------------------------------------------------------------
(* The updates and the outcomes of the collaborators the model draws from. *)

MessageTexts == {<<"/", "start">>, <<"/", "cancel">>, <<"/", "help">>, <<"time travel">>}

\* data of buttons the bot sends (lines 187, 188, 262-264, 338, 418)
ButtonData ==
    {<<"genre_", "Komediya">>, <<"confirm_genres">>, <<"year_", "10-e (2010-2020)">>,
     <<"confirm_years">>, <<"back_to_genres">>, <<"back_to_years">>, <<"start_over">>}

\* data no button carries, which a client may send all the same: the bare
\* prefixes, and a confirmation followed by a newline
CraftedData == {<<"genre_">>, <<"year_">>, <<"confirm_genres", "\n">>}

CallbackData == ButtonData \cup CraftedData

\* the data of the buttons of the two menus (lines 224, 303): more genre
\* buttons than MaxGenres, so that the limit of line 212 is met, and two year
\* ranges
DirectData ==
    ButtonData \cup {<<"genre_", "Boevik">>, <<"genre_", "Drama">>, <<"genre_", "Triller">>,
                     <<"year_", "00-e (2000-2009)">>}

\* username, first name and last name of update.effective_user
DefaultProfile == [username |-> <<"nick">>, first_name |-> <<"Ann">>, last_name |-> <<"Lee">>]
RenamedProfile == [username |-> <<"nick2">>, first_name |-> <<"Ann">>, last_name |-> <<"Lee">>]
Profiles == {DefaultProfile, RenamedProfile}

ModelTexts == {<<"1. Dune: 2021, sci-fi. Desc.">>}

MessageUpdate(u, text, profile) ==
    [user |-> u, message |-> TRUE, text |-> text, data |-> <<>>, profile |-> profile]

CallbackUpdate(u, data, profile) ==
    [user |-> u, message |-> FALSE, text |-> <<>>, data |-> data, profile |-> profile]

\* the updates of the users `us`: messages with the texts `texts`, callback
\* queries with the data `datas`
UpdatesOf(us, texts, datas) ==
    {MessageUpdate(u, t, DefaultProfile) : u \in us, t \in texts}
        \cup {CallbackUpdate(u, d, DefaultProfile) : u \in us, d \in datas}

\* outcomes of the database connection, the model call and the delivery of the
\* model's text during one turn
Envs == [db : DbOutcomes, model : {"ok", "error"}, text : ModelTexts, send : BOOLEAN]
DefaultEnv == [db |-> "ok", model |-> "ok", text |-> <<"1. Dune: 2021, sci-fi. Desc.">>,
               send |-> TRUE]

\* handle_keywords gets as far as the model call of line 387: lines 367 and 375
\* let it pass
ReachesModel(ud) ==
    /\ Get(ud, "selected_genres", <<>>) # <<>>
    /\ Get(ud, "selected_years", <<>>) # <<>>
    /\ YearsResolve(Get(ud, "selected_years", <<>>))

\* the outcomes and the profiles a callback reads: start reads the profile and
\* uses the database, handle_keywords reads the profile and uses all three
\* once it reaches the model call; no other callback reads any
EnvsFor(name, ud) ==
    CASE name = "start" -> {e \in Envs : e.model = "ok" /\ e.send}
      [] name = "handle_keywords" /\ ReachesModel(ud) -> Envs
      [] OTHER -> {DefaultEnv}

ProfilesFor(name, ud) ==
    IF name = "start" \/ (name = "handle_keywords" /\ ReachesModel(ud))
    THEN Profiles ELSE {DefaultProfile}

-----------------------------------------------------------------------------
(* State.  conversations is ConversationHandler's dictionary of the users  *)
(* in a dialogue, user_data[u] is context.user_data of user u, users2 and  *)
(* films are the two tables, and turn is the last update handled: the      *)
(* update, the state the conversation had when it arrived (<<>> for none), *)
(* the callback chosen, the outcomes of the collaborators, and what the    *)
(* callback did.  update_queue holds the updates put in the application's  *)
(* queue ahead of time and tasks the progress through them: how many were  *)
(* fetched and the callbacks in flight; both stay empty where the updates   *)
(* are drawn one at a time.  tasks.origin is the session a callback that   *)
(* is called on its own (SpecHandlers, SpecRace) is given.  tasks.bound     *)
(* names, per user, the list object the session holds under                *)
(* 'selected_genres' (0 for the first one, a new number for each list made *)
(* since, counted by tasks.made).                                          *)

NoTasks == [fetched |-> 0, running |-> <<>>, origin |-> EmptyDict,
            made |-> 0, bound |-> EmptyDict]

Init ==
    /\ conversations = EmptyDict
    /\ user_data = [u \in Users |-> EmptyDict]
    /\ users2 = EmptyDict
    /\ films = <<>>
    /\ update_queue = <<>>
    /\ tasks = NoTasks
    /\ turn = [user |-> 0, message |-> FALSE, text |-> <<>>, data |-> <<>>,
               profile |-> DefaultProfile,
               state |-> <<>>, handler |-> NoHandler, conv |-> FALSE,
               env |-> DefaultEnv, raised |-> FALSE, out |-> <<>>]

StateOf(convs, u) == IF u \in DOMAIN convs THEN <<convs[u]>> ELSE <<>>

Turn(update, state, handler, conv, env, raised, out) ==
    [user |-> update.user, message |-> update.message, text |-> update.text,
     data |-> update.data, profile |-> update.profile,
     state |-> state, handler |-> handler, conv |-> conv,
     env |-> env, raised |-> raised, out |-> out]

\* Run with the selections kept in one dictionary for all users (bot_data in
\* place of user_data): what the callback stores is what every user holds
Run_SharedSession(name, conv, update) ==
    \E env \in EnvsFor(name, user_data[update.user]),
       profile \in ProfilesFor(name, user_data[update.user]) :
        LET u == update.user
            upd == [update EXCEPT !.profile = profile]
            res == Call(name, upd, user_data[u], env, users2, films)
        IN  /\ conversations' = IF conv THEN UpdateState(conversations, u, res.ret)
                                ELSE conversations
            /\ user_data' = [v \in DOMAIN user_data |-> res.ud]
            /\ users2' = res.users2
            /\ films' = res.films
            /\ turn' = Turn(upd, StateOf(conversations, u), name, conv, env,
                            res.raised, res.out)
            /\ UNCHANGED <<update_queue, tasks>>

\* one update handled by callback `name`; the conversation takes the returned
\* state when the callback runs inside the ConversationHandler
Run(name, conv, update) ==
    \E env \in EnvsFor(name, user_data[update.user]),
       profile \in ProfilesFor(name, user_data[update.user]) :
        LET u == update.user
            upd == [update EXCEPT !.profile = profile]
            res == Call(name, upd, user_data[u], env, users2, films)
        IN  /\ conversations' = IF conv THEN UpdateState(conversations, u, res.ret)
                                ELSE conversations
            /\ user_data' = [user_data EXCEPT ![u] = res.ud]
            /\ users2' = res.users2
            /\ films' = res.films
            /\ turn' = Turn(upd, StateOf(conversations, u), name, conv, env,
                            res.raised, res.out)
            /\ UNCHANGED <<update_queue, tasks>>

\* the updates the routing of main() is given
Updates == UpdatesOf(Users, MessageTexts, CallbackData)

\* one action per callback: an update that the routing of main() hands to it
Start ==
    \E update \in Updates :
        LET r == Route(conversations, update)
        IN  r.callback = "start" /\ Run("start", r.conv, update)

SelectGenres ==
    \E update \in Updates :
        LET r == Route(conversations, update)
        IN  r.callback = "select_genres" /\ Run("select_genres", r.conv, update)

SelectYears ==
    \E update \in Updates :
        LET r == Route(conversations, update)
        IN  r.callback = "select_years" /\ Run("select_years", r.conv, update)

HandleKeywords ==
    \E update \in Updates :
        LET r == Route(conversations, update)
        IN  r.callback = "handle_keywords" /\ Run("handle_keywords", r.conv, update)

Cancel ==
    \E update \in Updates :
        LET r == Route(conversations, update)
        IN  r.callback = "cancel" /\ Run("cancel", r.conv, update)

Unknown ==
    \E update \in Updates :
        LET r == Route(conversations, update)
        IN  r.callback = "unknown" /\ Run("unknown", r.conv, update)

BackToGenres ==
    \E update \in Updates :
        LET r == Route(conversations, update)
        IN  r.callback = "back_to_genres" /\ Run("back_to_genres", r.conv, update)

BackToYears ==
    \E update \in Updates :
        LET r == Route(conversations, update)
        IN  r.callback = "back_to_years" /\ Run("back_to_years", r.conv, update)

\* no handler accepts the update: nothing runs and nothing is sent
Unhandled ==
    \E update \in Updates :
        /\ Route(conversations, update).callback = NoHandler
        /\ turn' = Turn(update, StateOf(conversations, update.user), NoHandler, FALSE,
                        DefaultEnv, FALSE, <<>>)
        /\ UNCHANGED <<conversations, user_data, users2, films, update_queue, tasks>>

Next ==
    \/ Start
    \/ SelectGenres
    \/ SelectYears
    \/ HandleKeywords
    \/ Cancel
    \/ Unknown
    \/ BackToGenres
    \/ BackToYears
    \/ Unhandled

Spec == Init /\ [][Next]_vars

-----------------------------------------------------------------------------------------------------------------------------------------------------
(* The callbacks called as functions.  A callback is a function of the     *)
(* update, of context.user_data and of the outcomes of its collaborators;  *)
(* the ConversationHandler stores the state it returns.  Here each         *)
(* callback is called once, with a session, a dialogue state and tables    *)
(* drawn from bounded sets, whether or not the routing of main() ever      *)
(* hands it such a call: under Spec no catalog label is ever selected, so  *)
(* the limit of line 212 and the code of handle_keywords past line 375 are *)
(* exercised only here.  tasks.origin keeps the session the call is given. *)

\* context.user_data as start leaves it, with selections made since
Session(selected_genres, selected_years) ==
    SetItem(SetItem(EmptyDict, "selected_genres", selected_genres),
            "selected_years", selected_years)

DirectUsers == {1}

\* the argument update: a message for the callbacks registered with a
\* CommandHandler or MessageHandler, a callback query for those registered
\* with a CallbackQueryHandler (start is registered with both, lines 514, 533)
DirectUpdates == UpdatesOf(DirectUsers, MessageTexts, DirectData)

Takes(name, update) ==
    CASE name = "start" -> TRUE
      [] name \in {"handle_keywords", "cancel", "unknown"} -> update.message
      [] OTHER -> ~update.message

\* the lists context.user_data may hold when a callback is called
DirectGenres ==
    {<<>>, <<<<"Komediya">>>>, <<<<"Komediya">>, <<"Boevik">>>>,
     <<<<"Komediya">>, <<"Boevik">>, <<"Drama">>>>}
DirectYears ==
    {<<>>, <<<<>>>>, <<<<"10-e (2010-2020)">>>>,
     <<<<"10-e (2010-2020)">>, <<"00-e (2000-2009)">>>>}

\* context.user_data: empty, as start leaves it with selections made since,
\* and with the keywords handle_keywords or back_to_years stored
DirectSessions ==
    {EmptyDict}
        \cup {Session(g, y) : g \in DirectGenres, y \in DirectYears}
        \cup {SetItem(Session(g, y), "keywords", k) :
                g \in DirectGenres, y \in DirectYears, k \in {None, Str(<<"old words">>)}}

\* a row an earlier call of handle_keywords stored in films (lines 374-375,
\* 400: the genre labels as selected, the values of the year ranges)
DirectRow ==
    FilmRow(1, DefaultProfile, Join(<<<<"Komediya">>>>),
            Join(YearValues(<<<<"10-e (2010-2020)">>>>)), <<"old words">>,
            <<"1. Dune: 2021, sci-fi. Desc.">>)

InitHandlers ==
    \E session \in DirectSessions,
       state \in {<<>>, <<SELECT_GENRES>>, <<SELECT_YEARS>>, <<ENTER_KEYWORDS>>},
       stored \in BOOLEAN, n \in 0..MaxFilms :
        \* a row of films refers to a row of users2 (line 108)
        /\ n > 0 => stored
        /\ conversations = IF state = <<>> THEN EmptyDict
                           ELSE SetItem(EmptyDict, 1, state[1])
        /\ user_data = [u \in DirectUsers |-> session]
        /\ users2 = IF stored THEN SetItem(EmptyDict, 1, DefaultProfile) ELSE EmptyDict
        /\ films = [i \in 1..n |-> DirectRow]
        /\ update_queue = <<>>
        /\ tasks = [NoTasks EXCEPT !.origin = session]
        /\ turn = Turn(CallbackUpdate(0, <<>>, DefaultProfile), <<>>, NoHandler, FALSE,
                       DefaultEnv, FALSE, <<>>)

\* no callback has been called yet
NotCalled == turn.handler = NoHandler

DirectStart ==
    \E update \in DirectUpdates :
        NotCalled /\ Takes("start", update) /\ Run("start", TRUE, update)

DirectSelectGenres ==
    \E update \in DirectUpdates :
        NotCalled /\ Takes("select_genres", update) /\ Run("select_genres", TRUE, update)

DirectSelectYears ==
    \E update \in DirectUpdates :
        NotCalled /\ Takes("select_years", update) /\ Run("select_years", TRUE, update)

DirectHandleKeywords ==
    \E update \in DirectUpdates :
        NotCalled /\ Takes("handle_keywords", update) /\ Run("handle_keywords", TRUE, update)

DirectCancel ==
    \E update \in DirectUpdates :
        NotCalled /\ Takes("cancel", update) /\ Run("cancel", TRUE, update)

DirectUnknown ==
    \E update \in DirectUpdates :
        NotCalled /\ Takes("unknown", update) /\ Run("unknown", TRUE, update)

DirectBackToGenres ==
    \E update \in DirectUpdates :
        NotCalled /\ Takes("back_to_genres", update) /\ Run("back_to_genres", TRUE, update)

DirectBackToYears ==
    \E update \in DirectUpdates :
        NotCalled /\ Takes("back_to_years", update) /\ Run("back_to_years", TRUE, update)

NextHandlers ==
    \/ DirectStart
    \/ DirectSelectGenres
    \/ DirectSelectYears
    \/ DirectHandleKeywords
    \/ DirectCancel
    \/ DirectUnknown
    \/ DirectBackToGenres
    \/ DirectBackToYears

SpecHandlers == InitHandlers /\ [][NextHandlers]_vars

-----------------------------------------------------------------------------
(* Updates queued ahead of time: /start and button presses of one user     *)
(* that wait in the application's queue while the first is handled.  The   *)
(* Application of line 511 is built with the builder's default,            *)
(* concurrent_updates off: it awaits the callback of one update before it  *)
(* fetches the next.  A callback runs from one suspension to the next:     *)
(*   - a callback of a menu button is suspended at the `await               *)
(*     query.answer()` of its first statement (pc "answer"); when that     *)
(*     returns it reads, toggles and stores the selection (lines 204-219,  *)
(*     289-300, 446, 478) and is suspended at the await that edits the     *)
(*     menu or shows the alert of lines 254, 332 (pc "edit"), after which  *)
(*     it returns; with data that is neither a token nor the confirmation  *)
(*     it returns at once (lines 281, 354);                                *)
(*   - select_genres on an unselected genre with three selected is         *)
(*     suspended in the middle, at the alert of line 216 (pc "alert"),     *)
(*     between the read of line 206 and the store of line 219.  What it    *)
(*     holds is the list object of the session itself (list), not a copy:  *)
(*     while the session keeps that object, what another callback removes  *)
(*     from it or appends to it in place (lines 209, 213) is also in the   *)
(*     list this callback stores at line 219.  Once the session is given   *)
(*     another list (start, line 182, or the store of a callback that      *)
(*     holds an older list) the object is out of the session and keeps the *)
(*     contents it had at that moment (held);                              *)
(*   - start and unknown are not suspended before their reply (`await      *)
(*     save_user_data` of line 178 awaits a coroutine that never yields):  *)
(*     start saves the profile and resets the session when it is started,  *)
(*     and is suspended at the reply of line 192 (pc "edit"); with a       *)
(*     callback query it raises there and is over at once.                 *)
(* The queue is filled before the first update is handled; the routing is  *)
(* that of main(), which gives the queued updates to no other callback.    *)

\* Application.builder() without concurrent_updates(...)
concurrent_updates == FALSE

\* process_update starts the callback of the next update
MayFetch(ts) == concurrent_updates \/ ts.running = <<>>

GenreToken(label) == <<"genre_">> \o label
YearToken(label) == <<"year_">> \o label

QueueUser == 1

Presses(datas) == [i \in 1..Len(datas) |-> CallbackUpdate(QueueUser, datas[i], DefaultProfile)]

QueuedStart == MessageUpdate(QueueUser, <<"/", "start">>, DefaultProfile)

\* /start, one genre chosen and confirmed, a year range chosen or not; then
\* the user goes back, presses one genre, confirms, presses one year range
\* and confirms.  The presses carry the data of a button of the menu or the
\* bare prefix.
BackNavScenarios ==
    {<<QueuedStart>>
        \o Presses(<<<<"genre_">>, <<"confirm_genres">>>> \o prior
                   \o <<<<"back_to_genres">>, g, <<"confirm_genres">>, y,
                        <<"confirm_years">>>>) :
        prior \in {<<>>, <<<<"year_">>>>},
        g \in {<<"genre_">>, GenreToken(<<"Komediya">>)},
        y \in {<<"year_">>, YearToken(<<"10-e (2010-2020)">>)}}

\* /start, then two presses in the same menu delivered back to back (the
\* same button twice is a duplicate press)
RaceScenarios ==
    {<<QueuedStart>> \o Presses(<<a, b>>) :
        a \in {<<"genre_">>, GenreToken(<<"Komediya">>)},
        b \in {<<"genre_">>, <<"confirm_genres">>}}
    \cup
    {<<QueuedStart>> \o Presses(<<<<"genre_">>, <<"confirm_genres">>, a, b>>) :
        a \in {<<"year_">>, YearToken(<<"10-e (2010-2020)">>)},
        b \in {<<"year_">>, <<"confirm_years">>}}

QueueScenarios == BackNavScenarios \cup RaceScenarios

InitQueue ==
    \E queue \in QueueScenarios :
        /\ conversations = EmptyDict
        /\ user_data = [u \in Users |-> EmptyDict]
        /\ users2 = EmptyDict
        /\ films = <<>>
        /\ update_queue = queue
        /\ tasks = NoTasks
        /\ turn = Turn(CallbackUpdate(0, <<>>, DefaultProfile), <<>>, NoHandler, FALSE,
                       DefaultEnv, FALSE, <<>>)

\* a callback in flight: its update, where the routing found it, the state the
\* conversation had, where it is suspended, and what it has done so far
Task(update, r, state) ==
    [update |-> update, callback |-> r.callback, conv |-> r.conv, state |-> state,
     pc |-> "answer", env |-> DefaultEnv, raised |-> FALSE, ret |-> <<>>, out |-> <<>>,
     list |-> 0, held |-> <<>>]

\* the callbacks whose first statement is `await query.answer()`, and those
\* that run up to their reply when they are started
AnswersFirst == {"select_genres", "select_years", "back_to_genres", "back_to_years"}
RepliesFirst == {"start", "unknown"}

\* lines 204-216: the press of an unselected genre with the limit reached
HitsLimit(update, ud) ==
    /\ StartsWith(update.data, "genre_")
    /\ ReplaceWithEmpty(update.data, "genre_") \notin Range(Get(ud, "selected_genres", <<>>))
    /\ ~(Len(Get(ud, "selected_genres", <<>>)) < MaxGenres)

\* the list object the session of u holds under 'selected_genres'
ListOf(ts, u) == Get(ts.bound, u, 0)

\* lines 182, 219: the session of u is given another list object.  A callback
\* suspended at line 216 that holds the object `old` keeps it, with the
\* contents it has at this moment; nothing changes them from now on
Rebound(running, u, old, contents) ==
    [i \in 1..Len(running) |->
        IF running[i].update.user = u /\ running[i].pc = "alert" /\ running[i].list = old
        THEN [running[i] EXCEPT !.held = contents]
        ELSE running[i]]

\* line 182: start makes a new list and puts it in the session
WithNewList(ts, u) ==
    [ts EXCEPT !.made = @ + 1, !.bound = SetItem(@, u, ts.made + 1)]

\* select_genres taking a copy of the selection at line 206
\* (list(context.user_data.get(...))): line 219 stores what it read
StoreHeld_Copied(t, ud, aliased) == SetItem(ud, "selected_genres", t.held)

\* line 219 after the alert of line 216: the list the callback holds is put in
\* the session.  When it is the object the session holds already (aliased)
\* the session is left as the other callbacks made it
StoreHeld(t, ud, aliased) ==
    IF aliased THEN ud ELSE SetItem(ud, "selected_genres", t.held)

\* running without its i-th callback
Without(running, i) == SubSeq(running, 1, i - 1) \o SubSeq(running, i + 1, Len(running))

\* process_update takes the next update from the queue and starts its callback,
\* which runs up to its first suspension; an update no handler accepts is dropped
QueueFetch ==
    /\ tasks.fetched < Len(update_queue)
    /\ MayFetch(tasks)
    /\ LET update == update_queue[tasks.fetched + 1]
           u == update.user
           r == Route(conversations, update)
           state == StateOf(conversations, u)
       IN  \E env \in EnvsFor(r.callback, user_data[u]) :
            LET res == Call(r.callback, update, user_data[u], env, users2, films)
                started == [Task(update, r, state) EXCEPT
                                !.pc = "edit", !.env = env, !.raised = res.raised,
                                !.ret = res.ret, !.out = res.out]
            IN  /\ r.callback \in AnswersFirst \cup RepliesFirst \cup {NoHandler}
                /\ IF r.callback = NoHandler
                   THEN /\ tasks' = [tasks EXCEPT !.fetched = @ + 1]
                        /\ turn' = Turn(update, state, NoHandler, FALSE, DefaultEnv,
                                        FALSE, <<>>)
                        /\ UNCHANGED <<user_data, users2, films>>
                   ELSE IF r.callback \in AnswersFirst
                   THEN /\ tasks' = [tasks EXCEPT !.fetched = @ + 1,
                                         !.running = Append(@, Task(update, r, state))]
                        /\ UNCHANGED <<user_data, users2, films, turn>>
                   ELSE /\ user_data' = [user_data EXCEPT ![u] = res.ud]
                        /\ users2' = res.users2
                        /\ films' = res.films
                        /\ LET others == IF r.callback = "start"
                                         THEN Rebound(tasks.running, u, ListOf(tasks, u),
                                                      Get(user_data[u], "selected_genres", <<>>))
                                         ELSE tasks.running
                               ts == IF r.callback = "start" THEN WithNewList(tasks, u)
                                     ELSE tasks
                           IN  IF res.raised
                               THEN /\ tasks' = [ts EXCEPT !.fetched = @ + 1,
                                                           !.running = others]
                                    /\ turn' = Turn(update, state, r.callback, r.conv,
                                                    env, TRUE, res.out)
                               ELSE /\ tasks' = [ts EXCEPT !.fetched = @ + 1,
                                                    !.running = Append(others, started)]
                                    /\ turn' = turn
    /\ UNCHANGED <<conversations, update_queue>>

\* query.answer() has returned to one callback, the call of its first
\* statement or the alert of line 216: the callback runs up to its next
\* suspension, or to its return when no await is left
QueueAnswered ==
    \E i \in 1..Len(tasks.running) :
        LET t == tasks.running[i]
            u == t.update.user
            ud == user_data[u]
            res == Call(t.callback, t.update, ud, t.env, users2, films)
            done == [t EXCEPT !.pc = "edit", !.raised = res.raised, !.ret = res.ret,
                              !.out = res.out]
        IN  /\ t.pc \in {"answer", "alert"}
            /\ UNCHANGED <<users2, films, update_queue>>
            /\ IF t.pc = "answer" /\ t.callback = "select_genres" /\ HitsLimit(t.update, ud)
               THEN \* line 216: suspended holding the list of the session, read at
                    \* line 206 (the limit is reached, so the session has one)
                    /\ tasks' = [tasks EXCEPT !.running[i] =
                                    [t EXCEPT !.pc = "alert",
                                              !.out = <<Step("answer", <<>>)>>,
                                              !.list = ListOf(tasks, u),
                                              !.held = Get(ud, "selected_genres", <<>>)]]
                    /\ UNCHANGED <<conversations, user_data, turn>>
               ELSE IF t.pc = "alert"
               THEN \* line 219 puts the list held in the session; when the session
                    \* held another one, the callbacks that hold that one keep it
                    \* (lines 221-249: the menu is edited, SELECT_GENRES returned)
                    LET aliased == t.list = ListOf(tasks, u)
                        resumed == [t EXCEPT !.pc = "edit", !.ret = <<SELECT_GENRES>>,
                                             !.out = <<Step("answer", <<>>),
                                                       Step("alert", MSG_ALERT_MAX_GENRES),
                                                       Step("menu", MSG_GENRE_MENU)>>]
                    IN  /\ user_data' = [user_data EXCEPT ![u] = StoreHeld(t, ud, aliased)]
                        /\ tasks' = [tasks EXCEPT
                                        !.running = Rebound([@ EXCEPT ![i] = resumed], u,
                                                            ListOf(tasks, u),
                                                            Get(ud, "selected_genres", <<>>)),
                                        !.bound = SetItem(@, u, t.list)]
                        /\ UNCHANGED <<conversations, turn>>
               ELSE IF res.out = <<Step("answer", <<>>)>>
               THEN \* lines 281, 354: nothing is awaited any more
                    /\ user_data' = [user_data EXCEPT ![u] = res.ud]
                    /\ conversations' = IF t.conv
                                        THEN UpdateState(conversations, u, res.ret)
                                        ELSE conversations
                    /\ tasks' = [tasks EXCEPT !.running = Without(@, i)]
                    /\ turn' = Turn(t.update, t.state, t.callback, t.conv, t.env,
                                    res.raised, res.out)
               ELSE /\ user_data' = [user_data EXCEPT ![u] = res.ud]
                    /\ tasks' = [tasks EXCEPT !.running[i] = done]
                    /\ UNCHANGED <<conversations, turn>>

\* the last await has returned: the callback returns and the
\* ConversationHandler stores the state it returned
QueueReturned ==
    \E i \in 1..Len(tasks.running) :
        LET t == tasks.running[i]
        IN  /\ t.pc = "edit"
            /\ conversations' = IF t.conv THEN UpdateState(conversations, t.update.user, t.ret)
                                ELSE conversations
            /\ tasks' = [tasks EXCEPT !.running = Without(@, i)]
            /\ turn' = Turn(t.update, t.state, t.callback, t.conv, t.env,
                            t.raised, t.out)
            /\ UNCHANGED <<user_data, users2, films, update_queue>>

NextQueue ==
    \/ QueueFetch
    \/ QueueAnswered
    \/ QueueReturned

SpecQueue == InitQueue /\ [][NextQueue]_vars

\* every queued update has been handled
QueueDone == tasks.fetched = Len(update_queue) /\ tasks.running = <<>>

-----------------------------------------------------------------------------
(* Two presses of one user in flight together.  As built (line 511) the    *)
(* application starts the callback of an update when the callback of the   *)
(* update before it has returned, so two callbacks of one user never       *)
(* overlap.  Here the callbacks of two presses in the same menu have both  *)
(* been started before either runs, as when the two updates are handled    *)
(* concurrently, and take their steps from one await to the next in any    *)
(* order.  Each is select_genres or select_years called on the press, with *)
(* a session drawn as for the callbacks called as functions; tasks.origin  *)
(* keeps that session.                                                     *)

RaceGenreData ==
    {GenreToken(<<"Komediya">>), GenreToken(<<"Triller">>), <<"confirm_genres">>}
RaceYearData ==
    {YearToken(<<"10-e (2010-2020)">>), YearToken(<<"00-e (2000-2009)">>),
     <<"confirm_years">>}

\* the callback, the state of the dialogue, the session and the two presses
RaceCalls ==
    {[callback |-> "select_genres", state |-> SELECT_GENRES,
      session |-> Session(g, <<>>), first |-> a, second |-> b] :
        g \in DirectGenres, a \in RaceGenreData, b \in RaceGenreData}
    \cup
    {[callback |-> "select_years", state |-> SELECT_YEARS,
      session |-> Session(<<<<"Komediya">>>>, y), first |-> a, second |-> b] :
        y \in DirectYears, a \in RaceYearData, b \in RaceYearData}

InitRace ==
    \E c \in RaceCalls :
        LET presses == Presses(<<c.first, c.second>>)
            r == [callback |-> c.callback, conv |-> TRUE]
        IN  /\ conversations = SetItem(EmptyDict, QueueUser, c.state)
            /\ user_data = [u \in Users |-> IF u = QueueUser THEN c.session ELSE EmptyDict]
            /\ users2 = SetItem(EmptyDict, QueueUser, DefaultProfile)
            /\ films = <<>>
            /\ update_queue = presses
            /\ tasks = [NoTasks EXCEPT
                            !.fetched = 2,
                            !.running = [i \in 1..2 |-> Task(presses[i], r, <<c.state>>)],
                            !.origin = c.session]
            /\ turn = Turn(CallbackUpdate(0, <<>>, DefaultProfile), <<>>, NoHandler, FALSE,
                           DefaultEnv, FALSE, <<>>)

NextRace ==
    \/ QueueAnswered
    \/ QueueReturned

SpecRace == InitRace /\ [][NextRace]_vars

-----------------------------------------------------------------------------
(* Two users whose updates interleave in any order, under the routing of   *)
(* main().  Each user sends the messages and the callback data that the    *)
(* patterns of main() dispatch; conversations and user_data are keyed by   *)
(* the user (ConversationHandler's per-user key, context.user_data).       *)

InterleavedUsers == {1, 2}

InterleavedUpdates ==
    UpdatesOf(InterleavedUsers,
              {<<"/", "start">>, <<"/", "cancel">>, <<"time travel">>},
              {<<"genre_">>, <<"confirm_genres">>, <<"year_">>, <<"confirm_years">>,
               <<"back_to_genres">>, <<"back_to_years">>})

InitInterleaved ==
    /\ conversations = EmptyDict
    /\ user_data = [u \in InterleavedUsers |-> EmptyDict]
    /\ users2 = EmptyDict
    /\ films = <<>>
    /\ update_queue = <<>>
    /\ tasks = NoTasks
    /\ turn = Turn(CallbackUpdate(0, <<>>, DefaultProfile), <<>>, NoHandler, FALSE,
                   DefaultEnv, FALSE, <<>>)

InterleavedStart ==
    \E update \in InterleavedUpdates :
        LET r == Route(conversations, update)
        IN  r.callback = "start" /\ Run("start", r.conv, update)

InterleavedSelectGenres ==
    \E update \in InterleavedUpdates :
        LET r == Route(conversations, update)
        IN  r.callback = "select_genres" /\ Run("select_genres", r.conv, update)

InterleavedSelectYears ==
    \E update \in InterleavedUpdates :
        LET r == Route(conversations, update)
        IN  r.callback = "select_years" /\ Run("select_years", r.conv, update)

InterleavedHandleKeywords ==
    \E update \in InterleavedUpdates :
        LET r == Route(conversations, update)
        IN  r.callback = "handle_keywords" /\ Run("handle_keywords", r.conv, update)

InterleavedCancel ==
    \E update \in InterleavedUpdates :
        LET r == Route(conversations, update)
        IN  r.callback = "cancel" /\ Run("cancel", r.conv, update)

InterleavedUnknown ==
    \E update \in InterleavedUpdates :
        LET r == Route(conversations, update)
        IN  r.callback = "unknown" /\ Run("unknown", r.conv, update)

InterleavedBackToGenres ==
    \E update \in InterleavedUpdates :
        LET r == Route(conversations, update)
        IN  r.callback = "back_to_genres" /\ Run("back_to_genres", r.conv, update)

InterleavedBackToYears ==
    \E update \in InterleavedUpdates :
        LET r == Route(conversations, update)
        IN  r.callback = "back_to_years" /\ Run("back_to_years", r.conv, update)

NextInterleaved ==
    \/ InterleavedStart
    \/ InterleavedSelectGenres
    \/ InterleavedSelectYears
    \/ InterleavedHandleKeywords
    \/ InterleavedCancel
    \/ InterleavedUnknown
    \/ InterleavedBackToGenres
    \/ InterleavedBackToYears

SpecInterleaved == InitInterleaved /\ [][NextInterleaved]_vars

-----------------------------------------------------------------------------
(* What the claims speak about.                                            *)

\* the selections and the keywords the session of user u holds
Genres(u) == Get(user_data[u], "selected_genres", <<>>)
Years(u) == Get(user_data[u], "selected_years", <<>>)
HasKeywords(u) == "keywords" \in DOMAIN user_data[u] /\ user_data[u]["keywords"] # None

InState(u, st) == u \in DOMAIN conversations /\ conversations[u] = st
NoDialogue(u) == u \notin DOMAIN conversations

\* the steps of the last turn with a given name, and the texts it replied with
StepsNamed(name) == SelectSeq(turn.out, LAMBDA st : st.step = name)
RepliesOf(out) ==
    LET replies == SelectSeq(out, LAMBDA st : st.step = "reply")
    IN  [i \in 1..Len(replies) |-> replies[i].arg]
ErrorReplies ==
    SelectSeq(turn.out, LAMBDA st : st.step = "reply"
                                    /\ st.arg \in {MSG_MODEL_ERROR, MSG_WENT_WRONG})

\* the last turn was handle_keywords and it called the model
ModelCalled == turn.handler = "handle_keywords" /\ StepsNamed("generate_content") # <<>>

\* the label a genre or year token carries
GenreLabel(data) == ReplaceWithEmpty(data, "genre_")
YearLabel(data) == ReplaceWithEmpty(data, "year_")

-----------------------------------------------------------------------------
(* C1: however the user's events are ordered, the dialogue is in           *)
(* ENTER_KEYWORDS only while the session holds a non-empty genre selection *)
(* and a non-empty year-range selection.                                   *)
C1_KeywordsStateHasSelections ==
    \A u \in Users :
        InState(u, ENTER_KEYWORDS) => Genres(u) # <<>> /\ Years(u) # <<>>

(* C2: a year-range selection is present only with a genre selection, and  *)
(* keywords are present only with both selections.                         *)
C2_SelectionsNested ==
    \A u \in Users :
        /\ Years(u) # <<>> => Genres(u) # <<>>
        /\ HasKeywords(u) => Genres(u) # <<>> /\ Years(u) # <<>>

(* C3: when the model call of a SubmitKeywords turn fails, the dialogue    *)
(* ends (Completed), the turn emits exactly one error reply, and           *)
(* save_film_request is not called.                                        *)
C3_ModelErrorCompletes ==
    (ModelCalled /\ turn.env.model = "error") =>
        /\ NoDialogue(turn.user)
        /\ ~turn.raised
        /\ Len(ErrorReplies) = 1
        /\ StepsNamed("save_film_request") = <<>>

C3_Witness ==
    /\ ModelCalled
    /\ turn.state = <<ENTER_KEYWORDS>>
    /\ turn.env.model = "error"
    /\ NoDialogue(turn.user)

(* C4: whenever save_film_request runs, and so when it fails (no           *)
(* connection, or the insert raises), the replies of the turn are the      *)
(* notice, the raw model text and the closing prompt, with no error reply, *)
(* and the dialogue ends, the same as when the insert commits.             *)
C4_StorageErrorSwallowed ==
    (turn.handler = "handle_keywords" /\ StepsNamed("save_film_request") # <<>>) =>
        /\ RepliesOf(turn.out) = <<MSG_SEARCHING, turn.env.text, MSG_START_OVER>>
        /\ ErrorReplies = <<>>
        /\ NoDialogue(turn.user)
        /\ ~turn.raised

C4_Witness ==
    /\ turn.handler = "handle_keywords"
    /\ turn.state = <<ENTER_KEYWORDS>>
    /\ turn.env.model = "ok"
    /\ StepsNamed("save_film_request") = <<Step("save_film_request", <<"error">>)>>
    /\ turn.env.db = "error"
    /\ NoDialogue(turn.user)

(* C5: a /start message is accepted in every dialogue state: start handles *)
(* it, the session is cleared, the profile is upserted when the database   *)
(* answers, and the dialogue is in SELECT_GENRES.                          *)
C5_StartAcceptedAnywhere ==
    (turn.message /\ turn.text = <<"/", "start">>) =>
        /\ turn.handler = "start"
        /\ InState(turn.user, SELECT_GENRES)
        /\ Genres(turn.user) = <<>> /\ Years(turn.user) = <<>> /\ ~HasKeywords(turn.user)
        /\ turn.env.db = "ok" => turn.user \in DOMAIN users2

(* C6: a /cancel message in any of the three dialogue states ends the      *)
(* dialogue and leaves the session empty: no genre selection, no           *)
(* year-range selection, no keywords.                                      *)
C6_CancelEndsAndClears ==
    (turn.message /\ turn.text = <<"/", "cancel">> /\ turn.state # <<>>) =>
        /\ turn.handler = "cancel"
        /\ NoDialogue(turn.user)
        /\ Genres(turn.user) = <<>> /\ Years(turn.user) = <<>> /\ ~HasKeywords(turn.user)
        /\ user_data[turn.user] = EmptyDict

C6_Witness ==
    /\ turn.message /\ turn.text = <<"/", "cancel">>
    /\ turn.state = <<ENTER_KEYWORDS>>
    /\ turn.handler = "cancel"
    /\ NoDialogue(turn.user)

(* C7: when handle_keywords, given the text submitted in ENTER_KEYWORDS,    *)
(* has ended the dialogue, the session is destroyed: no genre selection,   *)
(* year-range selection or keywords remain stored for the user.            *)
C7_CompletedSessionDestroyed ==
    (/\ turn.handler = "handle_keywords"
     /\ turn.state = <<ENTER_KEYWORDS>>
     /\ ~turn.raised
     /\ NoDialogue(turn.user)) =>
        Genres(turn.user) = <<>> /\ Years(turn.user) = <<>> /\ ~HasKeywords(turn.user)

\* an event the transition table of the dialogue does not allow in the state
\* it arrives in: free text while a genre or a year range is awaited, a choice
\* token of another state, an unknown command, text without a dialogue
ChoiceTokenStates(data) ==
    IF StartsWith(data, "genre_") \/ data = <<"confirm_genres">> THEN {SELECT_GENRES}
    ELSE IF StartsWith(data, "year_") \/ data = <<"confirm_years">> THEN {SELECT_YEARS}
    ELSE IF data = <<"back_to_genres">> THEN {SELECT_GENRES, SELECT_YEARS}
    ELSE IF data = <<"back_to_years">> THEN {ENTER_KEYWORDS}
    ELSE {}

IllegalEvent(t) ==
    \/ /\ t.message /\ ~StartsWith(t.text, "/")
       /\ t.state \in {<<>>, <<SELECT_GENRES>>, <<SELECT_YEARS>>}
    \/ /\ ~t.message /\ t.user \in Users /\ ChoiceTokenStates(t.data) # {}
       /\ t.state # <<>> /\ t.state[1] \notin ChoiceTokenStates(t.data)
    \/ t.message /\ t.text = <<"/", "help">>

(* C8: an event that is not legal for the state it arrives in is answered  *)
(* with the 'unrecognized' reply and changes neither the dialogue state    *)
(* nor the stored selections.                                              *)
C8_IllegalEventAnswered ==
    [][IllegalEvent(turn') =>
            /\ RepliesOf(turn'.out) = <<MSG_UNKNOWN>>
            /\ conversations' = conversations
            /\ user_data' = user_data]_vars

\* a genre or year token whose label is no key of the catalog
NonCatalogChoice(t) ==
    /\ ~t.message
    /\ \/ StartsWith(t.data, "genre_") /\ GenreLabel(t.data) \notin DOMAIN FILM_GENRES
       \/ StartsWith(t.data, "year_") /\ YearLabel(t.data) \notin DOMAIN FILM_YEAR_RANGES

(* C9: a genre or year token whose label is not in the catalog changes     *)
(* neither the selections nor the dialogue state, and handle_keywords      *)
(* never fails afterwards.                                                 *)
C9_UnknownOptionNoOp ==
    [][/\ NonCatalogChoice(turn') =>
            user_data' = user_data /\ conversations' = conversations
       /\ turn'.handler = "handle_keywords" => ~turn'.raised]_vars

(* C10: in SELECT_GENRES the token of a catalog genre g is handled by      *)
(* select_genres, makes g the selected genre, and moves the dialogue to    *)
(* SELECT_YEARS.                                                           *)
C10_ChooseGenreAdvances ==
    (/\ ~turn.message /\ StartsWith(turn.data, "genre_")
     /\ GenreLabel(turn.data) \in DOMAIN FILM_GENRES
     /\ turn.state = <<SELECT_GENRES>>) =>
        /\ turn.handler = "select_genres"
        /\ Genres(turn.user) = <<GenreLabel(turn.data)>>
        /\ InState(turn.user, SELECT_YEARS)

\* the queued updates are a back-navigation followed by one genre and one
\* year range, each confirmed; the genre and the year range pressed after it
BackNavQueue == update_queue \in BackNavScenarios
BackNavGenre == GenreLabel(update_queue[Len(update_queue) - 3].data)
BackNavYear == YearLabel(update_queue[Len(update_queue) - 1].data)

(* C11: whatever was selected before, BackToGenre followed by ChooseGenre(g) *)
(* and ChooseYearRange(y) (each confirmed) ends in ENTER_KEYWORDS with the   *)
(* session holding exactly genre g and year range y.                         *)
C11_BackThenChooseExact ==
    (BackNavQueue /\ QueueDone) =>
        /\ InState(QueueUser, ENTER_KEYWORDS)
        /\ Genres(QueueUser) = <<BackNavGenre>>
        /\ Years(QueueUser) = <<BackNavYear>>

\* the save_film_request steps of a turn's output
SaveSteps(out) == SelectSeq(out, LAMBDA st : st.step = "save_film_request")

(* C13: however often a user sends Start, and with whatever profile         *)
(* metadata, users2 keeps one row for the id (it is keyed by the id) and    *)
(* the row is the one written first: a stored row never changes or          *)
(* disappears, and a Start whose database call succeeds leaves a row for    *)
(* the user.                                                                *)
C13_ProfileWrittenOnce ==
    [][/\ \A u \in DOMAIN users2 : u \in DOMAIN users2' /\ users2'[u] = users2[u]
       /\ (turn'.handler = "start" /\ turn'.env.db = "ok") =>
              turn'.user \in DOMAIN users2']_vars

C13_Witness ==
    /\ turn.handler = "start"
    /\ turn.env.db = "ok"
    /\ turn.user \in DOMAIN users2
    /\ users2[turn.user] # turn.profile

\* the positions, in the steps of the last turn, of the model call, of the reply
\* with the raw model text, and of save_film_request
ModelCallPositions == {i \in 1..Len(turn.out) : turn.out[i].step = "generate_content"}
ModelTextPositions ==
    {i \in 1..Len(turn.out) : turn.out[i].step = "reply" /\ turn.out[i].arg = turn.env.text}
SavePositions == {i \in 1..Len(turn.out) : turn.out[i].step = "save_film_request"}

(* C14: in a SubmitKeywords turn the model call comes before the reply with *)
(* the raw model text, and that reply before save_film_request, which is    *)
(* attempted only when the model call succeeded and the text was sent, and  *)
(* then once.                                                               *)
C14_PipelineOrder ==
    turn.handler = "handle_keywords" =>
        /\ \A k \in SavePositions :
              /\ turn.env.model = "ok" /\ turn.env.send
              /\ \E i \in ModelCallPositions, j \in ModelTextPositions :
                    i < j /\ j < k
        /\ \A j \in ModelTextPositions :
              \E i \in ModelCallPositions : i < j
        /\ Cardinality(SavePositions) <= 1
        /\ Cardinality(ModelCallPositions) <= 1
        /\ (turn.env.model = "ok" /\ turn.env.send /\ ModelCalled) =>
              SavePositions # {}

C14_Witness ==
    /\ turn.handler = "handle_keywords"
    /\ ModelCallPositions = {2}
    /\ ModelTextPositions = {3}
    /\ SavePositions = {4}

(* C15: handling an update of user u changes neither the dialogue state    *)
(* nor the stored selections of any other user v, however the updates of   *)
(* the users interleave.                                                   *)
C15_OtherUsersUntouched ==
    [][\A v \in DOMAIN user_data :
          v # turn'.user =>
              /\ user_data'[v] = user_data[v]
              /\ StateOf(conversations', v) = StateOf(conversations, v)]_vars

C15_Witness ==
    /\ InState(1, SELECT_YEARS) /\ Genres(1) # <<>>
    /\ turn.user = 2 /\ turn.handler = "select_genres" /\ turn.data = <<"confirm_genres">>
    /\ InState(2, SELECT_GENRES) /\ Genres(2) = <<>>

\* the session after callback `name` has handled the press `update` alone, from
\* its first statement to its return
Pressed(name, ud, update) == Call(name, update, ud, DefaultEnv, users2, films).ud

\* the callbacks of the two presses have both returned
RaceOver == Len(update_queue) = 2 /\ tasks.fetched = 2 /\ tasks.running = <<>>

(* C16: two presses of one user whose callbacks are in flight together,    *)
(* taking their steps between the awaits in any order, leave the session   *)
(* that handling the two presses one after the other, in one of the two    *)
(* orders, leaves: no toggle of either press is lost.                      *)
C16_RaceSerialized ==
    RaceOver =>
        LET name == turn.handler
            a == update_queue[1]
            b == update_queue[2]
        IN  user_data[QueueUser] \in
                {Pressed(name, Pressed(name, tasks.origin, a), b),
                 Pressed(name, Pressed(name, tasks.origin, b), a)}

\* with three genres selected, the press of a fourth was refused (it read the
\* three at line 206) and returned last, after the other press had removed
\* one of the three and returned: the removal is in the session
C16_Witness ==
    /\ RaceOver
    /\ Len(Get(tasks.origin, "selected_genres", <<>>)) = MaxGenres
    /\ update_queue[1].data = GenreToken(<<"Triller">>)
    /\ update_queue[2].data = GenreToken(<<"Komediya">>)
    /\ turn.data = GenreToken(<<"Triller">>)
    /\ StepsNamed("alert") # <<>>
    /\ Genres(QueueUser) = <<<<"Boevik">>, <<"Drama">>>>

(* C17: a SubmitKeywords turn that finds the genre selection or the         *)
(* year-range selection empty builds no prompt, does not call the model and *)
(* records no request: the model is never invoked with an empty selection.  *)
C17_NoModelCallOnEmptySelection ==
    [][(/\ turn'.handler = "handle_keywords"
        /\ Genres(turn'.user) = <<>> \/ Years(turn'.user) = <<>>) =>
            /\ \A i \in 1..Len(turn'.out) : turn'.out[i].step # "generate_content"
            /\ SaveSteps(turn'.out) = <<>>
            /\ films' = films]_vars

C17_Witness ==
    /\ turn.handler = "handle_keywords"
    /\ turn.state = <<ENTER_KEYWORDS>>
    /\ Genres(turn.user) = <<>> /\ Years(turn.user) # <<>>
    /\ RepliesOf(turn.out) = <<MSG_WENT_WRONG>>
    /\ NoDialogue(turn.user)

(* C19: BackToGenre in SELECT_YEARS empties the year-range selection,       *)
(* leaves the genre selection exactly as it was, and puts the dialogue in   *)
(* SELECT_GENRES.                                                           *)
C19_BackToGenreKeepsGenres ==
    [][(turn'.handler = "back_to_genres" /\ turn'.state = <<SELECT_YEARS>>) =>
          /\ Get(user_data'[turn'.user], "selected_years", <<>>) = <<>>
          /\ Get(user_data'[turn'.user], "selected_genres", <<>>) = Genres(turn'.user)
          /\ StateOf(conversations', turn'.user) = <<SELECT_GENRES>>]_vars

C19_Witness ==
    /\ turn.handler = "back_to_genres"
    /\ turn.state = <<SELECT_YEARS>>
    /\ InState(turn.user, SELECT_GENRES)
    /\ Genres(turn.user) # <<>>
    /\ Years(turn.user) = <<>>

\* the press of a button of the open menu: a catalog genre while genres are
\* chosen, a catalog year range while year ranges are chosen
CatalogGenrePress(t) ==
    /\ ~t.message /\ t.state = <<SELECT_GENRES>>
    /\ \E g \in DOMAIN FILM_GENRES : t.data = GenreToken(g)
CatalogYearPress(t) ==
    /\ ~t.message /\ t.state = <<SELECT_YEARS>>
    /\ \E y \in DOMAIN FILM_YEAR_RANGES : t.data = YearToken(y)

(* C20: under the routing of main() the flow the bot offers can be walked:  *)
(* each press of a catalog genre button in SELECT_GENRES is dispatched to   *)
(* select_genres and toggles that genre in the selection, and each press of *)
(* a catalog year button in SELECT_YEARS is dispatched to select_years and  *)
(* toggles that year range.                                                 *)
C20_ButtonsDispatched ==
    [][/\ CatalogGenrePress(turn') =>
            /\ turn'.handler = "select_genres"
            /\ Get(user_data'[turn'.user], "selected_genres", <<>>) =
                  ToggleGenre(Genres(turn'.user), GenreLabel(turn'.data))
       /\ CatalogYearPress(turn') =>
            /\ turn'.handler = "select_years"
            /\ Get(user_data'[turn'.user], "selected_years", <<>>) =
                  ToggleYear(Years(turn'.user), YearLabel(turn'.data))]_vars

(* C21: when no dialogue is open (the last one has ended) and the user      *)
(* presses the 'start new search' button (start_over), a fresh dialogue     *)
(* begins: start runs to its end, the selections are empty, the genre menu  *)
(* is sent and the dialogue is in SELECT_GENRES.                            *)
C21_StartOverBeginsDialogue ==
    (~turn.message /\ turn.data = <<"start_over">> /\ turn.state = <<>>) =>
        /\ turn.handler = "start"
        /\ ~turn.raised
        /\ RepliesOf(turn.out) = <<MSG_GREETING>>
        /\ user_data[turn.user] = Session(<<>>, <<>>)
        /\ InState(turn.user, SELECT_GENRES)

\* the genre selection of a user is within the limit and without repetition
GenresBounded(u) ==
    /\ Len(Genres(u)) <= MaxGenres
    /\ \A i, j \in 1..Len(Genres(u)) : Genres(u)[i] = Genres(u)[j] => i = j

(* C22: in every reachable state the genre selection holds at most 3 genres *)
(* and no genre twice; a genre press handled by select_genres on an         *)
(* unselected genre when 3 are selected leaves the selection unchanged, a   *)
(* press on a selected genre removes exactly that genre, and a press on an  *)
(* unselected genre below the limit appends it.                             *)
C22_GenreSelectionBounded ==
    /\ [](\A u \in DOMAIN user_data : GenresBounded(u))
    /\ [][(turn'.handler = "select_genres" /\ StartsWith(turn'.data, "genre_")) =>
            LET u == turn'.user
                genre == GenreLabel(turn'.data)
                before == Genres(u)
                after == Get(user_data'[u], "selected_genres", <<>>)
            IN  /\ (genre \notin Range(before) /\ Len(before) = MaxGenres) =>
                        after = before
                /\ genre \in Range(before) =>
                        after = SelectSeq(before, LAMBDA g : g # genre)
                /\ (genre \notin Range(before) /\ Len(before) < MaxGenres) =>
                        after = Append(before, genre)]_vars

\* a fourth genre was pressed with three selected and was refused
C22_Witness ==
    /\ turn.handler = "select_genres"
    /\ StartsWith(turn.data, "genre_")
    /\ Len(Genres(turn.user)) = MaxGenres
    /\ GenreLabel(turn.data) \notin Range(Genres(turn.user))
    /\ StepsNamed("alert") = <<Step("alert", MSG_ALERT_MAX_GENRES)>>

(* C23: every dialogue entered through the /start command begins in         *)
(* SELECT_GENRES with a session that holds an empty genre selection, an     *)
(* empty year-range selection and nothing else (no keywords), whatever the  *)
(* session held before.                                                     *)
C23_StartBeginsEmpty ==
    (turn.handler = "start" /\ turn.message /\ turn.conv) =>
        /\ InState(turn.user, SELECT_GENRES)
        /\ Genres(turn.user) = <<>>
        /\ Years(turn.user) = <<>>
        /\ "keywords" \notin DOMAIN user_data[turn.user]
        /\ user_data[turn.user] = Session(<<>>, <<>>)

\* start was called with a session that held selections and keywords
C23_Witness ==
    /\ turn.handler = "start" /\ turn.message /\ turn.conv
    /\ turn.state = <<>>
    /\ InState(turn.user, SELECT_GENRES)
    /\ Get(tasks.origin, "selected_genres", <<>>) # <<>>
    /\ Get(tasks.origin, "selected_years", <<>>) # <<>>
    /\ Get(tasks.origin, "keywords", None) # None
    /\ user_data[turn.user] = Session(<<>>, <<>>)

(* C24: whenever the dialogue of a user is in SELECT_GENRES, the year-range *)
(* selection of that user is empty.                                         *)
C24_NoYearsWhileChoosingGenres ==
    \A u \in DOMAIN user_data : InState(u, SELECT_GENRES) => Years(u) = <<>>

\* the dialogue came back from the year menu to the genre menu
C24_Witness ==
    /\ turn.handler = "back_to_genres" /\ ~turn.raised
    /\ turn.data = <<"back_to_genres">>
    /\ turn.state = <<SELECT_YEARS>>
    /\ InState(turn.user, SELECT_GENRES)
    /\ "selected_years" \in DOMAIN user_data[turn.user]
    /\ user_data[turn.user]["selected_years"] = <<>>

====
